---- MODULE Spec2Model ----
(***************************************************************************)
(* The interaction controller of the ComboBox widget                       *)
(* (src/src/combobox/index.ts): the private fields of the widget, the      *)
(* properties its owner supplies, the event handlers the widget attaches   *)
(* to its input, buttons and dropdown, and render().                       *)
(*                                                                         *)
(* JavaScript values are pairs <<type, payload>>, so that undefined, the   *)
(* booleans, strings and objects stay distinct and string conversion       *)
(* (a template literal) is a real function.                                *)
(*                                                                         *)
(* `properties` holds the owner's results, disabled and readOnly.  The     *)
(* optional functions (getResultLabel, getResultValue, isResultDisabled)   *)
(* and openOnFocus are each read by the handlers only, at the moment of    *)
(* an event, and setting them has no other effect on the widget: they are  *)
(* the parameter `props` of the handler that reads them, the value the     *)
(* owner last set.  The owner supplies every callback, and sets clearable. *)
(* `properties` also holds valid and helperText, which only the helper     *)
(* text of the output shows: the owner leaves them unset under Spec and    *)
(* sets them under SpecHelperText.                                         *)
(***************************************************************************)
EXTENDS Integers, Sequences, FiniteSets, TLC

VARIABLES
    activeIndex,          \* this._activeIndex
    ignoreBlur,           \* this._ignoreBlur
    menuHasVisualFocus,   \* this._menuHasVisualFocus
    open,                 \* this._open
    wasOpen,              \* this._wasOpen
    properties,           \* this.properties, as last set by the owner
    dirty,                \* an invalidation is pending (invalidate() was called)
    vdom,                 \* what the last render() returned (the attached handlers)
    calls,                \* the calls the last event made, in order
    event,                \* the last event: its handler, its input and the
                          \* properties the handler read
    mouseDownSinceBlur,   \* history: a result mouse-down since the last blur
    run,                  \* history: the Down keys pressed in a row on an open
                          \* menu, and the active index they started from
    closeNotices,         \* history: the onMenuChange(false) calls since a render
                          \* found an open, shown menu without results (else -1)
    lastMenuChange        \* history: the argument of the last onMenuChange call

vars == <<activeIndex, ignoreBlur, menuHasVisualFocus, open, wasOpen,
          properties, dirty, vdom, calls, event,
          mouseDownSinceBlur, run, closeNotices, lastMenuChange>>

(***************************************************************************)
(* Bounds                                                                  *)
(***************************************************************************)
MaxResults == 2

(***************************************************************************)
(* JavaScript values                                                       *)
(***************************************************************************)
JSUndefined == <<"undefined", "">>
JSTrue == <<"boolean", "true">>
JSFalse == <<"boolean", "false">>
JSString(s) == <<"string", s>>
JSObject(id) == <<"object", id>>
NoArgs == <<>>

JSBoolean(b) == IF b THEN JSTrue ELSE JSFalse

\* ToBoolean, as `!x`, `x && ...` and `x ? ... : ...` apply it
Truthy(v) == v \notin {JSUndefined, JSFalse, JSString("")}

\* the conversion a template literal `${v}` applies
TemplateString(v) ==
    CASE v[1] = "string" -> v
      [] v[1] = "undefined" -> JSString("undefined")
      [] v[1] = "boolean" -> JSString(v[2])
      [] OTHER -> JSString("[object Object]")

\* a % n of JavaScript: the remainder has the sign of the dividend
JSRemainder(a, n) == IF a >= 0 THEN a % n ELSE 0 - ((0 - a) % n)

\* results[index]: undefined outside the array
ElementAt(results, index) ==
    IF index >= 0 /\ index < Len(results) THEN results[index + 1] ELSE JSUndefined

(***************************************************************************)
(* What the owner supplies                                                 *)
(***************************************************************************)
\* result items: a string and an object
ResultItems == {JSString("a"), JSObject("o")}

ResultSets == UNION {[1..n -> ResultItems] : n \in 0..MaxResults}

\* the text the user types into the input
InputValues == {JSString("x")}

\* an optional function property is absent, or one fixed function of the owner
Absent == "undefined"

\* the owner's getResultLabel: a DNode, a string for a string item and a
\* virtual node for an object item
OwnerResultLabel(result) ==
    CASE result[1] = "string" -> JSString("label-a")
      [] result[1] = "object" -> <<"vnode", "label-o">>
      [] OTHER -> JSUndefined

\* the owner's getResultValue: a string
OwnerResultValue(result) ==
    CASE result[1] = "string" -> JSString("value-a")
      [] result[1] = "object" -> JSString("value-o")
      [] OTHER -> JSString("value-none")

\* the owner's isResultDisabled: object items are disabled
OwnerResultDisabled(result) == result[1] = "object"

Keys == {"Up", "Down", "Escape", "Enter", "Space", "Home", "End", "Tab"}

increase == 1
decrease == -1

\* the owner's valid: unset, a boolean, or an object { valid?, message? }
NoValid == [type |-> "undefined", valid |-> JSUndefined, message |-> JSUndefined]

ValidValues ==
    {NoValid}
    \cup [type : {"boolean"}, valid : {JSTrue, JSFalse}, message : {JSUndefined}]
    \cup [type : {"object"}, valid : {JSUndefined, JSTrue, JSFalse},
          message : {JSUndefined, JSString("message")}]

HelperTexts == {JSUndefined, JSString("help")}

ComboboxProperties ==
    [ disabled : BOOLEAN,
      readOnly : BOOLEAN,
      results : ResultSets,
      valid : {NoValid},
      helperText : {JSUndefined} ]

\* the properties only a handler reads
HandlerProperties ==
    [ openOnFocus : BOOLEAN,
      getResultLabel : {Absent, "OwnerResultLabel"},
      getResultValue : {Absent, "OwnerResultValue"},
      isResultDisabled : {Absent, "OwnerResultDisabled"} ]

NoProperties ==
    [ openOnFocus |-> FALSE,
      getResultLabel |-> Absent,
      getResultValue |-> Absent,
      isResultDisabled |-> Absent ]

\* the properties a selection reads, and those a focus reads
SelectProperties == {p \in HandlerProperties : ~p.openOnFocus}
FocusProperties ==
    {[NoProperties EXCEPT !.openOnFocus = b] : b \in BOOLEAN}

(***************************************************************************)
(* The widget's mutable state as one record, so that a handler is the      *)
(* composition of the methods it calls, in the order of the code.          *)
(***************************************************************************)
This ==
    [ activeIndex |-> activeIndex,
      ignoreBlur |-> ignoreBlur,
      menuHasVisualFocus |-> menuHasVisualFocus,
      open |-> open,
      wasOpen |-> wasOpen,
      dirty |-> dirty,
      calls |-> <<>> ]

\* a call that leaves the widget: an owner callback, focus(), or a method of
\* the DOM event; `open` is this._open at the moment of the call
Call(s, name, arg) ==
    [s EXCEPT !.calls = Append(@, [name |-> name, arg |-> arg, open |-> s.open])]

invalidate(s) == [s EXCEPT !.dirty = TRUE]

focus(s) == Call(s, "focus", NoArgs)

_closeMenu(s) == invalidate([s EXCEPT !.open = JSFalse])

\* _getResultValue that prefers the label to the value
_getResultValue_PrefersLabel(props, result) ==
    LET getResultValue ==
            IF props.getResultLabel = Absent
            THEN props.getResultValue
            ELSE props.getResultLabel
    IN  CASE getResultValue = "OwnerResultValue" ->
                TemplateString(OwnerResultValue(result))
          [] getResultValue = "OwnerResultLabel" ->
                TemplateString(OwnerResultLabel(result))
          [] OTHER -> TemplateString(result)

_getResultValue(props, result) ==
    LET getResultValue ==
            IF props.getResultValue = Absent
            THEN props.getResultLabel
            ELSE props.getResultValue
    IN  CASE getResultValue = "OwnerResultValue" ->
                TemplateString(OwnerResultValue(result))
          [] getResultValue = "OwnerResultLabel" ->
                TemplateString(OwnerResultLabel(result))
          [] OTHER -> TemplateString(result)

\* isResultDisabled that ignores the owner's predicate
isResultDisabled_Never(props, result) == FALSE

isResultDisabled(props, result) ==
    IF props.isResultDisabled = Absent
    THEN FALSE
    ELSE OwnerResultDisabled(result)

\* _openMenu without the reset of the active index
_openMenu_KeepsIndex(s) ==
    invalidate(Call([s EXCEPT !.open = JSTrue], "onRequestResults", NoArgs))

_openMenu(s) ==
    LET s1 == [s EXCEPT !.activeIndex = 0, !.open = JSTrue]
        s2 == Call(s1, "onRequestResults", NoArgs)
    IN  invalidate(s2)

\* _selectIndex with the callbacks before the menu is closed
_selectIndex_NotifiesBeforeClosing(s, props, index) ==
    LET results == properties.results
        s1 == focus(s)
        s2 == Call(s1, "onResultSelect", ElementAt(results, index))
        s3 == Call(s2, "onValue", _getResultValue(props, ElementAt(results, index)))
    IN  _closeMenu(s3)

_selectIndex(s, props, index) ==
    LET results == properties.results
        s1 == focus(s)
        s2 == _closeMenu(s1)
        s3 == Call(s2, "onResultSelect", ElementAt(results, index))
    IN  Call(s3, "onValue", _getResultValue(props, ElementAt(results, index)))

\* _moveActiveIndex that stops at the ends instead of wrapping around
_moveActiveIndex_NoWrap(s, operation) ==
    LET total == Len(properties.results)
        moved == s.activeIndex + operation
        nextIndex == IF moved < 0 THEN 0 ELSE IF moved >= total THEN total - 1 ELSE moved
    IN  IF total = 0
        THEN invalidate([s EXCEPT !.activeIndex = 0])
        ELSE invalidate([s EXCEPT !.activeIndex = nextIndex])

_moveActiveIndex(s, operation) ==
    LET results == properties.results
        total == Len(results)
        nextIndex == JSRemainder(s.activeIndex + operation + total, total)
    IN  IF Len(results) = 0
        THEN invalidate([s EXCEPT !.activeIndex = 0])
        ELSE invalidate([s EXCEPT !.activeIndex = nextIndex])

validity ==
    LET valid == IF properties.valid.type = "undefined"
                 THEN [type |-> "object", valid |-> JSUndefined, message |-> JSUndefined]
                 ELSE properties.valid
    IN  IF valid.type = "boolean"
        THEN [valid |-> valid.valid, message |-> JSUndefined]
        ELSE [valid |-> valid.valid, message |-> valid.message]

\* the properties of the HelperText that render() creates
NoHelper == [text |-> JSUndefined, valid |-> JSUndefined]

HelperText ==
    [ text |-> IF Truthy(validity.valid) THEN properties.helperText ELSE validity.message,
      valid |-> validity.valid ]

_onMenuChange(s) ==
    LET s1 == IF Truthy(s.open) /\ ~Truthy(s.wasOpen)
              THEN Call(s, "onMenuChange", JSTrue)
              ELSE s
    IN  IF ~Truthy(s1.open) /\ Truthy(s1.wasOpen)
        THEN Call(s1, "onMenuChange", JSFalse)
        ELSE s1

(***************************************************************************)
(* History of the events, kept beside the widget: it reads the widget and  *)
(* never changes it.                                                       *)
(***************************************************************************)
CallCount(cs, name) == Cardinality({i \in DOMAIN cs : cs[i].name = name})

CallCountWith(cs, name, arg) ==
    Cardinality({i \in DOMAIN cs : cs[i].name = name /\ cs[i].arg = arg})

NoRun == [from |-> -1, count |-> 0]

\* the results are empty at a render of a menu that is open and was shown
EmptiedWhileOpen ==
    /\ Truthy(open)
    /\ Truthy(wasOpen)
    /\ vdom.menu
    /\ Len(properties.results) = 0

Observed(s, name, input) ==
    LET total == Len(properties.results)
        moved == /\ name = "_onInputKey"
                 /\ input = "Down"
                 /\ Truthy(open)
                 /\ total >= 1
                 /\ activeIndex \in 0..(total - 1)
        falses == CallCountWith(s.calls, "onMenuChange", JSFalse)
        changes == {i \in DOMAIN s.calls : s.calls[i].name = "onMenuChange"}
    IN  /\ lastMenuChange' =
              IF changes = {}
              THEN lastMenuChange
              ELSE s.calls[CHOOSE i \in changes : \A j \in changes : j <= i].arg
        /\ mouseDownSinceBlur' =
              CASE name = "_onResultMouseDown" -> TRUE
                [] name = "_onInputBlur" -> FALSE
                [] OTHER -> mouseDownSinceBlur
        /\ run' =
              CASE moved /\ run.count \in 1..(total - 1) ->
                     [run EXCEPT !.count = @ + 1]
                [] moved /\ run.count \notin 1..(total - 1) ->
                     [from |-> activeIndex, count |-> 1]
                [] name = "render" -> run
                [] OTHER -> NoRun
        /\ closeNotices' =
              CASE name = "render" /\ EmptiedWhileOpen -> falses
                [] name = "render" /\ closeNotices >= 0 -> closeNotices + falses
                [] name # "render" /\ Truthy(s.open) -> -1
                [] OTHER -> closeNotices

\* the end of an event: the handler's effects become the widget's state
Handled(s, name, input, props) ==
    /\ Observed(s, name, input)
    /\ activeIndex' = s.activeIndex
    /\ ignoreBlur' = s.ignoreBlur
    /\ menuHasVisualFocus' = s.menuHasVisualFocus
    /\ open' = s.open
    /\ wasOpen' = s.wasOpen
    /\ dirty' = s.dirty
    /\ calls' = s.calls
    /\ event' = [name |-> name, input |-> input, props |-> props]

(***************************************************************************)
(* Event handlers.  A handler runs only once render() has attached it.     *)
(***************************************************************************)
_onArrowClick ==
    /\ vdom.mounted
    /\ LET s1 == Call(This, "stopPropagation", NoArgs)
       IN  IF ~properties.disabled /\ ~properties.readOnly
           THEN Handled(_openMenu(focus(s1)), "_onArrowClick", "", NoProperties)
           ELSE Handled(s1, "_onArrowClick", "", NoProperties)
    /\ UNCHANGED <<properties, vdom>>

_onClearClick ==
    /\ vdom.mounted
    /\ LET s1 == Call(This, "stopPropagation", NoArgs)
           s2 == invalidate(focus(s1))
       IN  Handled(Call(s2, "onValue", JSString("")), "_onClearClick", "", NoProperties)
    /\ UNCHANGED <<properties, vdom>>

\* _onInputValue that checks disabled only
_onInputValue_IgnoresReadOnly(value) ==
    /\ vdom.mounted
    /\ LET s1 == Call(This, "onValue", value)
       IN  IF ~properties.disabled
           THEN Handled(_openMenu(s1), "_onInputValue", value[2], NoProperties)
           ELSE Handled(s1, "_onInputValue", value[2], NoProperties)
    /\ UNCHANGED <<properties, vdom>>

_onInputValue(value) ==
    /\ vdom.mounted
    /\ LET s1 == Call(This, "onValue", value)
       IN  IF ~properties.disabled /\ ~properties.readOnly
           THEN Handled(_openMenu(s1), "_onInputValue", value[2], NoProperties)
           ELSE Handled(s1, "_onInputValue", value[2], NoProperties)
    /\ UNCHANGED <<properties, vdom>>

\* _onInputBlur that closes the menu whatever the ignore-blur flag is
_onInputBlur_AlwaysCloses ==
    /\ vdom.mounted
    /\ IF Truthy(ignoreBlur)
       THEN Handled(_closeMenu([This EXCEPT !.ignoreBlur = JSFalse]), "_onInputBlur", "",
                    NoProperties)
       ELSE Handled(_closeMenu(Call(This, "onBlur", NoArgs)), "_onInputBlur", "",
                    NoProperties)
    /\ UNCHANGED <<properties, vdom>>

\* _onInputBlur that leaves the ignore-blur flag set
_onInputBlur_KeepsIgnoring ==
    /\ vdom.mounted
    /\ IF Truthy(ignoreBlur)
       THEN Handled(This, "_onInputBlur", "", NoProperties)
       ELSE Handled(_closeMenu(Call(This, "onBlur", NoArgs)), "_onInputBlur", "",
                    NoProperties)
    /\ UNCHANGED <<properties, vdom>>

_onInputBlur ==
    /\ vdom.mounted
    /\ IF Truthy(ignoreBlur)
       THEN Handled([This EXCEPT !.ignoreBlur = JSFalse], "_onInputBlur", "", NoProperties)
       ELSE Handled(_closeMenu(Call(This, "onBlur", NoArgs)), "_onInputBlur", "",
                    NoProperties)
    /\ UNCHANGED <<properties, vdom>>

\* _onInputFocus that opens the menu whatever openOnFocus is
_onInputFocus_AlwaysOpens(props) ==
    /\ vdom.mounted
    /\ LET s1 == Call(This, "onFocus", NoArgs)
       IN  IF ~properties.disabled /\ ~properties.readOnly
           THEN Handled(_openMenu(s1), "_onInputFocus", "", props)
           ELSE Handled(s1, "_onInputFocus", "", props)
    /\ UNCHANGED <<properties, vdom>>

_onInputFocus(props) ==
    /\ vdom.mounted
    /\ LET s1 == Call(This, "onFocus", NoArgs)
       IN  IF ~properties.disabled /\ ~properties.readOnly /\ props.openOnFocus
           THEN Handled(_openMenu(s1), "_onInputFocus", "", props)
           ELSE Handled(s1, "_onInputFocus", "", props)
    /\ UNCHANGED <<properties, vdom>>

\* _onInputKey with two slips as parameters: Escape without the test of
\* _open, and End that sets the active index to the length less endOffset
_onInputKeyVariant(key, props, escapeGuarded, endOffset) ==
    /\ vdom.mounted
    /\ LET results == properties.results
           s0 == [This EXCEPT !.menuHasVisualFocus = TRUE]
           prevented == Call(s0, "preventDefault", NoArgs)
           s1 ==
             CASE key = "Up" -> _moveActiveIndex(prevented, decrease)
               [] key = "Down" ->
                    IF ~Truthy(s0.open) /\ ~properties.disabled /\ ~properties.readOnly
                    THEN _openMenu(prevented)
                    ELSE IF Truthy(s0.open)
                         THEN _moveActiveIndex(prevented, increase)
                         ELSE prevented
               [] key = "Escape" ->
                    IF ~escapeGuarded \/ Truthy(s0.open) THEN _closeMenu(s0) ELSE s0
               [] key \in {"Enter", "Space"} ->
                    IF Truthy(s0.open) /\ Len(results) > 0
                    THEN IF isResultDisabled(props, ElementAt(results, s0.activeIndex))
                         THEN s0
                         ELSE _selectIndex(s0, props, s0.activeIndex)
                    ELSE s0
               [] key = "Home" -> invalidate([s0 EXCEPT !.activeIndex = 0])
               [] key = "End" ->
                    invalidate([s0 EXCEPT !.activeIndex = Len(results) - endOffset])
               [] OTHER -> s0
       IN  Handled(s1, "_onInputKey", key, props)
    /\ UNCHANGED <<properties, vdom>>

_onInputKey_EscapeAlwaysCloses(key, props) == _onInputKeyVariant(key, props, FALSE, 1)

_onInputKey_EndPastTheLast(key, props) == _onInputKeyVariant(key, props, TRUE, 0)

_onInputKey(key, props) ==
    /\ vdom.mounted
    /\ LET results == properties.results
           s0 == [This EXCEPT !.menuHasVisualFocus = TRUE]
           prevented == Call(s0, "preventDefault", NoArgs)
           s1 ==
             CASE key = "Up" -> _moveActiveIndex(prevented, decrease)
               [] key = "Down" ->
                    IF ~Truthy(s0.open) /\ ~properties.disabled /\ ~properties.readOnly
                    THEN _openMenu(prevented)
                    ELSE IF Truthy(s0.open)
                         THEN _moveActiveIndex(prevented, increase)
                         ELSE prevented
               [] key = "Escape" ->
                    IF Truthy(s0.open) THEN _closeMenu(s0) ELSE s0
               [] key \in {"Enter", "Space"} ->
                    IF Truthy(s0.open) /\ Len(results) > 0
                    THEN IF isResultDisabled(props, ElementAt(results, s0.activeIndex))
                         THEN s0
                         ELSE _selectIndex(s0, props, s0.activeIndex)
                    ELSE s0
               [] key = "Home" -> invalidate([s0 EXCEPT !.activeIndex = 0])
               [] key = "End" ->
                    invalidate([s0 EXCEPT !.activeIndex = Len(results) - 1])
               [] OTHER -> s0
       IN  Handled(s1, "_onInputKey", key, props)
    /\ UNCHANGED <<properties, vdom>>

_onResultHover ==
    /\ vdom.menu
    /\ Handled(invalidate([This EXCEPT !.menuHasVisualFocus = FALSE]),
               "_onResultHover", "", NoProperties)
    /\ UNCHANGED <<properties, vdom>>

_onResultMouseDown ==
    /\ vdom.menu
    /\ LET s1 == Call(This, "stopPropagation", NoArgs)
       IN  Handled([s1 EXCEPT !.ignoreBlur = JSTrue], "_onResultMouseDown", "",
                   NoProperties)
    /\ UNCHANGED <<properties, vdom>>

\* the Listbox reports a new active index among the options it was given
onActiveIndexChange(index) ==
    /\ vdom.menu
    /\ index \in 0..(vdom.optionCount - 1)
    /\ Handled(invalidate([This EXCEPT !.activeIndex = index]),
               "onActiveIndexChange", ToString(index), NoProperties)
    /\ UNCHANGED <<properties, vdom>>

\* the Listbox reports the selection of one of the options it was given
onOptionSelect(index, props) ==
    /\ vdom.menu
    /\ index \in 0..(vdom.optionCount - 1)
    /\ Handled(_selectIndex(This, props, index), "onOptionSelect", ToString(index), props)
    /\ UNCHANGED <<properties, vdom>>

renderMenu(s, results) == ~(Len(results) = 0 \/ ~Truthy(s.open))

\* render() with two slips as parameters: the forced close without the test
\* of _open, and the helper text decided before the forced close
renderVariant(alwaysForces, helperFirst) ==
    /\ dirty
    /\ LET results == properties.results
           s0 == [This EXCEPT !.dirty = FALSE]
           menu == renderMenu(s0, results)
           s1 == _onMenuChange(s0)
           s2 == IF Len(results) = 0 /\ (alwaysForces \/ s1.open = JSTrue)
                 THEN invalidate([s1 EXCEPT !.open = JSFalse])
                 ELSE s1
           s3 == [s2 EXCEPT !.wasOpen = s2.open]
           closed == IF helperFirst THEN ~Truthy(s1.open) ELSE ~Truthy(s3.open)
       IN  /\ Handled(s3, "render", "", NoProperties)
           /\ vdom' = [ mounted |-> TRUE,
                        menu |-> menu,
                        optionCount |-> IF menu THEN Len(results) ELSE 0,
                        helperText |-> closed,
                        helper |-> IF closed THEN HelperText ELSE NoHelper ]
    /\ UNCHANGED properties

render_HelperTextBeforeForcedClose == renderVariant(FALSE, TRUE)

render_ForcesCloseWhenClosed == renderVariant(TRUE, FALSE)

\* render() runs when an invalidation is pending; the pending invalidation is
\* taken at its start, and an invalidate() inside it leaves a new one pending
render ==
    /\ dirty
    /\ LET results == properties.results
           s0 == [This EXCEPT !.dirty = FALSE]
           menu == renderMenu(s0, results)
           s1 == _onMenuChange(s0)
           s2 == IF Len(results) = 0 /\ s1.open = JSTrue
                 THEN invalidate([s1 EXCEPT !.open = JSFalse])
                 ELSE s1
           s3 == [s2 EXCEPT !.wasOpen = s2.open]
       IN  /\ Handled(s3, "render", "", NoProperties)
           /\ vdom' = [ mounted |-> TRUE,
                        menu |-> menu,
                        optionCount |-> IF menu THEN Len(results) ELSE 0,
                        helperText |-> ~Truthy(s3.open),
                        helper |-> IF ~Truthy(s3.open) THEN HelperText ELSE NoHelper ]
    /\ UNCHANGED properties

\* the owner sets one property; a changed property invalidates the widget,
\* and `results` is compared by reference (a new array always differs)
setProperty(name, value) ==
    /\ name # "results" => properties[name] # value
    /\ properties' = [properties EXCEPT ![name] = value]
    /\ dirty' = TRUE
    /\ calls' = <<>>
    /\ event' = [name |-> "setProperty", input |-> name, props |-> NoProperties]
    /\ run' = NoRun
    /\ UNCHANGED <<activeIndex, ignoreBlur, menuHasVisualFocus, open, wasOpen, vdom,
                   mouseDownSinceBlur, closeNotices, lastMenuChange>>

Init ==
    /\ activeIndex = 0
    /\ ignoreBlur = JSUndefined
    /\ menuHasVisualFocus = FALSE
    /\ open = JSUndefined
    /\ wasOpen = JSUndefined
    /\ properties \in ComboboxProperties
    /\ dirty = TRUE
    /\ vdom = [ mounted |-> FALSE, menu |-> FALSE, optionCount |-> 0,
                helperText |-> FALSE, helper |-> NoHelper ]
    /\ calls = <<>>
    /\ event = [name |-> "constructor", input |-> "", props |-> NoProperties]
    /\ mouseDownSinceBlur = FALSE
    /\ run = NoRun
    /\ closeNotices = -1
    /\ lastMenuChange = JSUndefined

Next ==
    \/ _onArrowClick
    \/ _onClearClick
    \/ \E value \in InputValues : _onInputValue(value)
    \/ _onInputBlur
    \/ \E props \in FocusProperties : _onInputFocus(props)
    \/ \E key \in Keys :
         \E props \in (IF key \in {"Enter", "Space"}
                       THEN SelectProperties ELSE {NoProperties}) :
           _onInputKey(key, props)
    \/ _onResultHover
    \/ _onResultMouseDown
    \/ \E index \in 0..MaxResults : onActiveIndexChange(index)
    \/ \E index \in 0..MaxResults : \E props \in SelectProperties :
         onOptionSelect(index, props)
    \/ render
    \/ \E b \in BOOLEAN : \E name \in {"disabled", "readOnly"} : setProperty(name, b)
    \/ \E r \in ResultSets : setProperty("results", r)

Spec == Init /\ [][Next]_vars

\* the owner sets valid and helperText, and the menu is opened and closed
NextHelperText ==
    \/ _onArrowClick
    \/ _onInputBlur
    \/ render
    \/ \E v \in ValidValues : setProperty("valid", v)
    \/ \E h \in HelperTexts : setProperty("helperText", h)

SpecHelperText == Init /\ [][NextHelperText]_vars

TypeOK ==
    /\ activeIndex \in -1..MaxResults
    /\ open \in {JSUndefined, JSTrue, JSFalse}
    /\ wasOpen \in {JSUndefined, JSTrue, JSFalse}
    /\ ignoreBlur \in {JSUndefined, JSTrue, JSFalse}
    /\ menuHasVisualFocus \in BOOLEAN
    /\ dirty \in BOOLEAN

(***************************************************************************)
(* Properties                                                              *)
(***************************************************************************)
KeyPressed(key) == event'.name = "_onInputKey" /\ event'.input = key

Enabled == ~properties.disabled /\ ~properties.readOnly

\* C1: the active index is in [0, N-1] whenever the results have length
\* N > 0, and is 0 whenever the results are empty.
C1_ActiveIndexInRange ==
    LET total == Len(properties.results)
    IN  /\ total > 0 => activeIndex \in 0..(total - 1)
        /\ total = 0 => activeIndex = 0

\* C2: when a render finds a menu that is open, and was shown with results,
\* without results, it closes the menu, and onMenuChange(false) is called
\* exactly once from that render until the menu is opened again.
C2_EmptiedMenuNotifiesCloseOnce ==
    [][ /\ (event'.name = "render" /\ EmptiedWhileOpen) => ~Truthy(open')
        /\ (closeNotices >= 0 /\ Truthy(open')) => closeNotices = 1
        /\ closeNotices' <= 1 ]_vars

\* C3: a render calls onMenuChange at most once, and calls it with b exactly
\* when the menu's open state is b at the end of the render and was not b at
\* the end of the render before.
C3_RenderNotifiesExactlyTheChange ==
    [][ event'.name = "render" =>
          /\ CallCount(calls', "onMenuChange") <= 1
          /\ \A b \in BOOLEAN :
               (CallCountWith(calls', "onMenuChange", JSBoolean(b)) = 1)
                 <=> (Truthy(open') = b /\ Truthy(wasOpen) # b) ]_vars

\* C4: the Down key on a closed menu of a widget neither disabled nor
\* read-only opens the menu, sets the active index to 0 and calls
\* onRequestResults exactly once.
C4_DownOpensClosedMenu ==
    [][ (KeyPressed("Down") /\ ~Truthy(open) /\ Enabled) =>
          /\ open' = JSTrue
          /\ activeIndex' = 0
          /\ CallCount(calls', "onRequestResults") = 1 ]_vars

\* the Down key has opened a menu
C4_Witness ==
    /\ event.name = "_onInputKey"
    /\ event.input = "Down"
    /\ open = JSTrue
    /\ activeIndex = 0
    /\ CallCount(calls, "onRequestResults") = 1

ActiveResultDisabled(props) ==
    /\ props.isResultDisabled # Absent
    /\ OwnerResultDisabled(ElementAt(properties.results, activeIndex))

SelectKeyPressed == event'.name = "_onInputKey" /\ event'.input \in {"Enter", "Space"}

\* C6: Enter or Space on an open menu with results whose active result the
\* owner's isResultDisabled marks disabled calls neither onResultSelect nor
\* onValue and leaves open and the active index unchanged.
C6_DisabledResultIsNotSelected ==
    [][ ( /\ SelectKeyPressed
          /\ Truthy(open)
          /\ Len(properties.results) > 0
          /\ ActiveResultDisabled(event'.props) ) =>
          /\ CallCount(calls', "onResultSelect") = 0
          /\ CallCount(calls', "onValue") = 0
          /\ open' = open
          /\ activeIndex' = activeIndex ]_vars

\* Enter was pressed on a disabled active result of an open menu
C6_Witness ==
    /\ event.name = "_onInputKey"
    /\ event.input = "Enter"
    /\ open = JSTrue
    /\ Len(properties.results) > 0
    /\ ActiveResultDisabled(event.props)
    /\ calls = <<>>

\* the event selects index i: the Listbox reports it, or Enter or Space is
\* pressed on an open menu with results whose active result i is not disabled
Selects(i) ==
    \/ event'.name = "onOptionSelect" /\ event'.input = ToString(i)
    \/ /\ SelectKeyPressed
       /\ Truthy(open)
       /\ Len(properties.results) > 0
       /\ activeIndex = i
       /\ ~ActiveResultDisabled(event'.props)

Indices == -1..MaxResults

\* C7: selecting index i closes the menu, requests focus, and calls
\* onResultSelect once with results[i] and then onValue once, both with the
\* menu already closed.
C7_SelectionClosesThenNotifies ==
    [][ \A i \in Indices : Selects(i) =>
          /\ open' = JSFalse
          /\ CallCount(calls', "focus") = 1
          /\ CallCount(calls', "onResultSelect") = 1
          /\ CallCount(calls', "onValue") = 1
          /\ \E j, k \in DOMAIN calls' :
               /\ j < k
               /\ calls'[j].name = "onResultSelect"
               /\ calls'[j].arg = ElementAt(properties.results, i)
               /\ calls'[j].open = JSFalse
               /\ calls'[k].name = "onValue"
               /\ calls'[k].open = JSFalse ]_vars

\* the second of two different results was selected
C7_Witness ==
    /\ event.name \in {"onOptionSelect", "_onInputKey"}
    /\ Len(properties.results) >= 2
    /\ properties.results[1] # properties.results[2]
    /\ open = JSFalse
    /\ \E j \in DOMAIN calls :
         /\ calls[j].name = "onResultSelect"
         /\ calls[j].arg = properties.results[2]

\* the argument of the one onValue call of the event
ValuePassed(v) ==
    \E k \in DOMAIN calls' : calls'[k].name = "onValue" /\ calls'[k].arg = v

\* C8 as stated: the string passed to onValue for the selected result r is
\* getResultValue(r) if supplied, else getResultLabel(r) if supplied, else
\* the default string of r.
C8_ValueIsTheExtractorsResult ==
    [][ \A i \in Indices : Selects(i) =>
          LET r == ElementAt(properties.results, i)
              props == event'.props
          IN  ValuePassed(
                IF props.getResultValue # Absent THEN OwnerResultValue(r)
                ELSE IF props.getResultLabel # Absent THEN OwnerResultLabel(r)
                ELSE TemplateString(r)) ]_vars

\* C8 amended: the string passed to onValue for the selected result r is the
\* string conversion of getResultValue(r) if supplied, else of
\* getResultLabel(r) if supplied, else of r; it is getResultLabel(r) itself
\* when that is a string.
C8_ValueIsTheStringOfTheExtractorsResult ==
    [][ \A i \in Indices : Selects(i) =>
          LET r == ElementAt(properties.results, i)
              props == event'.props
              label == OwnerResultLabel(r)
          IN  /\ ValuePassed(
                   IF props.getResultValue # Absent
                   THEN TemplateString(OwnerResultValue(r))
                   ELSE IF props.getResultLabel # Absent
                   THEN TemplateString(label)
                   ELSE TemplateString(r))
              /\ ( /\ props.getResultValue = Absent
                   /\ props.getResultLabel # Absent
                   /\ label[1] = "string" ) => ValuePassed(label) ]_vars

\* a result was selected with a label extractor and no value extractor, and
\* onValue received its label
C8_Witness ==
    /\ event.name \in {"onOptionSelect", "_onInputKey"}
    /\ event.props.getResultValue = Absent
    /\ event.props.getResultLabel # Absent
    /\ \E j, k \in DOMAIN calls :
         /\ calls[j].name = "onResultSelect"
         /\ calls[k].name = "onValue"
         /\ calls[k].arg = OwnerResultLabel(calls[j].arg)

\* C9: a blur of the input is swallowed (no onBlur, open unchanged) exactly
\* when a result was pressed with the mouse since the blur before; any other
\* blur calls onBlur and closes the menu.
C9_MouseDownSwallowsOneBlur ==
    [][ event'.name = "_onInputBlur" =>
          IF mouseDownSinceBlur
          THEN CallCount(calls', "onBlur") = 0 /\ open' = open
          ELSE CallCount(calls', "onBlur") = 1 /\ open' = JSFalse ]_vars

\* a blur was swallowed earlier, and this one has called onBlur and closed
C9_Witness ==
    /\ event.name = "_onInputBlur"
    /\ ignoreBlur = JSFalse
    /\ CallCount(calls, "onBlur") = 1
    /\ open = JSFalse

Opens == ~Truthy(open) /\ Truthy(open')

\* C10 as stated: a closed menu opens only by a focus of the input with
\* openOnFocus, a click on the toggle, or the Down key, on a widget neither
\* disabled nor read-only.
C10_OpensOnlyByFocusToggleOrDown ==
    [][ Opens =>
          /\ Enabled
          /\ \/ event'.name = "_onInputFocus" /\ event'.props.openOnFocus
             \/ event'.name = "_onArrowClick"
             \/ KeyPressed("Down") ]_vars

\* C10 amended: a closed menu opens only by a focus of the input with
\* openOnFocus, a click on the toggle, the Down key, or a change of the
\* input's text, on a widget neither disabled nor read-only.
C10_OpensOnlyByFocusToggleDownOrTyping ==
    [][ Opens =>
          /\ Enabled
          /\ \/ event'.name = "_onInputFocus" /\ event'.props.openOnFocus
             \/ event'.name = "_onArrowClick"
             \/ KeyPressed("Down")
             \/ event'.name = "_onInputValue" ]_vars

\* typing into the input has opened the closed menu
C10_Witness ==
    /\ event.name = "_onInputValue"
    /\ open = JSTrue
    /\ \E k \in DOMAIN calls : calls[k].name = "onValue" /\ ~Truthy(calls[k].open)
    /\ CallCount(calls, "onRequestResults") = 1

\* the last event was one of the user's on the input, the buttons or the
\* dropdown
UserEvent ==
    event'.name \in {"_onArrowClick", "_onClearClick", "_onInputValue", "_onInputBlur",
                     "_onInputFocus", "_onInputKey", "_onResultHover",
                     "_onResultMouseDown", "onActiveIndexChange", "onOptionSelect"}

\* C11: while disabled or readOnly is set, no user event opens a closed menu
\* and none calls onRequestResults.
C11_DisabledNeverOpens ==
    [][ (UserEvent /\ ~Enabled) =>
          /\ ~Opens
          /\ CallCount(calls', "onRequestResults") = 0 ]_vars

\* text was typed into the input of a read-only widget whose menu is closed
C11_Witness ==
    /\ event.name = "_onInputValue"
    /\ properties.readOnly
    /\ ~properties.disabled
    /\ ~Truthy(open)
    /\ CallCount(calls, "onValue") = 1
    /\ CallCount(calls, "onRequestResults") = 0

\* C12: the output of a render has the dropdown exactly when it has no helper
\* text; the dropdown only for an open menu with results, the helper text
\* only for a closed menu, also when the render closed it for empty results.
C12_DropdownOrHelperText ==
    /\ vdom.mounted => (vdom.menu <=> ~vdom.helperText)
    /\ event.name = "render" =>
         /\ vdom.menu <=> (Truthy(open) /\ Len(properties.results) > 0)
         /\ vdom.helperText <=> ~Truthy(open)

\* a render has closed an open menu without results, and shows helper text
C12_Witness ==
    /\ event.name = "render"
    /\ dirty
    /\ open = JSFalse
    /\ Len(properties.results) = 0
    /\ vdom.helperText
    /\ ~vdom.menu

\* C13: a render of a closed menu, with helperText supplied and valid not,
\* puts the owner's helperText into the helper text of the output.
C13_HelperTextShownWithoutValid ==
    ( /\ event.name = "render"
      /\ ~Truthy(open)
      /\ properties.valid = NoValid
      /\ properties.helperText # JSUndefined ) =>
        /\ vdom.helperText
        /\ vdom.helper.text = properties.helperText

\* C14: an open menu closes only by a blur of the input that the ignore-blur
\* flag does not swallow, the Escape key, a selection, or a render that finds
\* the results empty.
C14_ClosesOnlyByBlurEscapeSelectionOrEmptyResults ==
    [][ (Truthy(open) /\ ~Truthy(open')) =>
          \/ event'.name = "_onInputBlur" /\ ~Truthy(ignoreBlur)
          \/ KeyPressed("Escape")
          \/ \E i \in Indices : Selects(i)
          \/ event'.name = "render" /\ Len(properties.results) = 0 ]_vars

\* the Escape key has closed a menu that the last render left open
C14_Witness ==
    /\ event.name = "_onInputKey"
    /\ event.input = "Escape"
    /\ open = JSFalse
    /\ Truthy(wasOpen)
    /\ dirty

OwnerCallbacks ==
    {"onBlur", "onFocus", "onMenuChange", "onOut", "onOver", "onRequestResults",
     "onResultSelect", "onValidate", "onValue"}

NoOwnerCallback(cs) == \A i \in DOMAIN cs : cs[i].name \notin OwnerCallbacks

\* Escape on a closed menu, or a key the handler has no case for
QuietKey ==
    /\ event'.name = "_onInputKey"
    /\ \/ event'.input = "Escape" /\ ~Truthy(open)
       \/ event'.input \notin {"Up", "Down", "Escape", "Enter", "Space", "Home", "End"}

\* C15 as stated: Escape on a closed menu, and any key other than Up, Down,
\* Escape, Enter, Space, Home and End, leave open, wasOpen, activeIndex,
\* menuHasVisualFocus and ignoreBlur unchanged and call no owner callback.
C15_QuietKeyChangesNothing ==
    [][ QuietKey =>
          /\ open' = open
          /\ wasOpen' = wasOpen
          /\ activeIndex' = activeIndex
          /\ menuHasVisualFocus' = menuHasVisualFocus
          /\ ignoreBlur' = ignoreBlur
          /\ NoOwnerCallback(calls') ]_vars

\* C15 amended: Escape on a closed menu, and any key other than Up, Down,
\* Escape, Enter, Space, Home and End, leave open, wasOpen, activeIndex and
\* ignoreBlur unchanged, set menuHasVisualFocus to true and call no owner
\* callback.
C15_QuietKeyOnlySetsVisualFocus ==
    [][ QuietKey =>
          /\ open' = open
          /\ wasOpen' = wasOpen
          /\ activeIndex' = activeIndex
          /\ menuHasVisualFocus' = TRUE
          /\ ignoreBlur' = ignoreBlur
          /\ NoOwnerCallback(calls') ]_vars

\* Escape was pressed on a menu that was never opened
C15_Witness ==
    /\ event.name = "_onInputKey"
    /\ event.input = "Escape"
    /\ open = JSUndefined
    /\ menuHasVisualFocus
    /\ calls = <<>>

\* C16: with N results Home sets the active index to 0 and End to N-1, and
\* neither changes open nor calls onRequestResults, onResultSelect, onValue
\* or onMenuChange.
C16_HomeAndEndJump ==
    [][ (KeyPressed("Home") \/ KeyPressed("End")) =>
          /\ KeyPressed("Home") => activeIndex' = 0
          /\ KeyPressed("End") => activeIndex' = Len(properties.results) - 1
          /\ open' = open
          /\ \A i \in DOMAIN calls' :
               calls'[i].name \notin {"onRequestResults", "onResultSelect", "onValue",
                                      "onMenuChange"} ]_vars

\* End has moved the active index of an open menu to the last of the results
C16_Witness ==
    /\ event.name = "_onInputKey"
    /\ event.input = "End"
    /\ open = JSTrue
    /\ Len(properties.results) = MaxResults
    /\ activeIndex = MaxResults - 1

\* C17: whenever a key or the Listbox selects on a rendered widget, the
\* argument of onResultSelect is an element of the owner's current results,
\* and onValue is not called with the string form of undefined.
C17_SelectedResultIsACurrentResult ==
    [][ (~dirty /\ event'.name \in {"_onInputKey", "onOptionSelect"}) =>
          \A k \in DOMAIN calls' :
            /\ calls'[k].name = "onResultSelect" =>
                 \E i \in DOMAIN properties.results :
                   properties.results[i] = calls'[k].arg
            /\ calls'[k].name = "onValue" =>
                 calls'[k].arg # JSString("undefined") ]_vars

\* C18: the values passed to onMenuChange alternate and begin with true:
\* each differs from the one passed before it, and the first is true.
C18_MenuChangesAlternate ==
    [][ \A k \in DOMAIN calls' :
          calls'[k].name = "onMenuChange" =>
            /\ calls'[k].arg # lastMenuChange
            /\ lastMenuChange = JSUndefined => calls'[k].arg = JSTrue
            /\ CallCount(calls', "onMenuChange") = 1 ]_vars

\* C19: a render leaves an invalidation pending exactly when it forces an
\* open menu closed because the results are empty, and the state it leaves
\* then is one in which the next render forces nothing.
C19_RenderInvalidatesOnlyOnForcedClose ==
    [][ event'.name = "render" =>
          /\ dirty' <=> (open = JSTrue /\ Len(properties.results) = 0)
          /\ dirty' => (open' = JSFalse /\ properties' = properties) ]_vars

\* the render after a forced close has run and left nothing pending: the
\* menu was notified open and closed without a notice, as only the forced
\* close does
C19_Witness ==
    /\ event.name = "render"
    /\ ~dirty
    /\ open = JSFalse
    /\ wasOpen = JSFalse
    /\ Len(properties.results) = 0
    /\ lastMenuChange = JSTrue
    /\ calls = <<>>
====
